---- MODULE Spec2Model ----
(***************************************************************************)
(* Model of src/codigo/routers/appointments.py: the appointment router.   *)
(*                                                                         *)
(* The Appointment table is a sequence of rows in insertion order; row i   *)
(* has id i (ids are assigned by the store and no row is ever deleted).    *)
(* A request arrives (Receive), its handler runs as one action, and the    *)
(* response leaves (Deliver).  Spec runs the handlers one after another.   *)
(* SpecConc runs two create_appointment handlers side by side, each split  *)
(* at its commit: the conflict query first, the insert second.             *)
(***************************************************************************)
EXTENDS Naturals, Sequences, FiniteSets

VARIABLES
  store,      \* the Appointment table
  patients,   \* the ids that have a row in the Patient table
  req,        \* the request being handled, NoRequest when there is none
  resp,       \* the response of the handler, NoResponse once it has left
  sent,       \* the mails the handler dispatched
  inflight    \* SpecConc: each worker's create request and how far it is

vars == <<store, patients, req, resp, sent, inflight>>

\* ------------------------------------------------------------------ bounds

\* Most rows the Appointment table holds in the model.
MaxAppts == 2

\* ------------------------------------------------------- values and inputs

AGENDADO == "AGENDADO"
CANCELADO == "CANCELADO"
PSICOLOGO == "PSICOLOGO"
PACIENTE == "PACIENTE"

Statuses == {AGENDADO, CANCELADO}

\* Request values the model draws from.
PatientIds == {1}
PsychologistIds == {1, 2}
Dates == {"2025-03-10", "2025-03-11"}
Times == {"10:00", "15:00"}

\* Rows of the User table: psychologist_id 2 resolves to no user.
UserTable == {1, 3, 4}

\* Authenticated callers: the practitioners 1 and 3 and the patient user 4.
Callers ==
  { [id |-> 1, type |-> PSICOLOGO],
    [id |-> 3, type |-> PSICOLOGO],
    [id |-> 4, type |-> PACIENTE] }

\* AppointmentCreate payloads.
CreateInputs ==
  [patient_id : PatientIds, psychologist_id : PsychologistIds,
   date : Dates, time : Times]

\* The fields an AppointmentUpdate payload may carry, and the payloads:
\* functions from the fields that were set to their values.
UpdateFields == {"date", "time", "status"}

FieldValues(f) ==
  CASE f = "date" -> Dates
    [] f = "time" -> Times
    [] f = "status" -> Statuses

UpdateInputs ==
  UNION { { p \in [fs -> Dates \cup Times \cup Statuses] :
              \A f \in fs : p[f] \in FieldValues(f) } :
          fs \in SUBSET UpdateFields }

\* Ids a request may name: the stored ones and one that matches no row.
RequestIds(s) == 1 .. (Len(s) + 1)

NoRequest == [op |-> "none"]

NoResponse == [op |-> "none", code |-> 0, id |-> 0, body |-> <<>>]

Response(op, code, id, body) ==
  [op |-> op, code |-> code, id |-> id, body |-> body]

Workers == {1, 2}

Idle == [pc |-> "idle"]

\* ------------------------------------------------------------ the queries

\* db.query(Appointment).filter(Appointment.id == appointment_id).first():
\* the row's index, 0 for None.
FindById(s, appointment_id) ==
  IF appointment_id \in DOMAIN s THEN appointment_id ELSE 0

\* FindExisting without the filter on Appointment.time.
FindExistingAnyTime(s, data) ==
  LET hits == { i \in DOMAIN s :
                  /\ s[i].psychologist_id = data.psychologist_id
                  /\ s[i].date = data.date
                  /\ s[i].status = AGENDADO }
  IN IF hits = {} THEN 0 ELSE CHOOSE i \in hits : \A j \in hits : i <= j

\* The conflict query of create_appointment: the first AGENDADO row of the
\* psychologist, date and time; 0 for None.
FindExisting(s, data) ==
  LET hits == { i \in DOMAIN s :
                  /\ s[i].psychologist_id = data.psychologist_id
                  /\ s[i].date = data.date
                  /\ s[i].time = data.time
                  /\ s[i].status = AGENDADO }
  IN IF hits = {} THEN 0 ELSE CHOOSE i \in hits : \A j \in hits : i <= j

\* Appointment(**appointment_data.dict(), status=AGENDADO), with the id the
\* store assigns on commit.
NewAppointment(s, data) ==
  [id |-> Len(s) + 1,
   patient_id |-> data.patient_id,
   psychologist_id |-> data.psychologist_id,
   date |-> data.date,
   time |-> data.time,
   status |-> AGENDADO]

\* db.query(Patient).filter(Patient.id == patient_id).first() is not None.
PatientFound(patient_id) == patient_id \in patients

\* db.query(User).filter(User.id == psychologist_id).first() is not None.
UserFound(user_id) == user_id \in UserTable

\* ------------------------------------------------------ create_appointment

\* The mail send_email_appointment is called with, read from the row.
AppointmentMail(row) ==
  [kind |-> "appointment", patient |-> row.patient_id,
   date |-> row.date, time |-> row.time]

\* if patient: send(...)
IfPatient(row, mail) ==
  IF PatientFound(row.patient_id) THEN <<mail>> ELSE <<>>

\* db.add, db.commit, db.refresh: the table with the new row.
Insert(s, data) == Append(s, NewAppointment(s, data))

CreateAppointment ==
  /\ req.op = "create"
  /\ LET existing == FindExisting(store, req.data)
     IN IF existing # 0
          THEN /\ resp' = Response("create", 400, 0, <<>>)
               /\ sent' = <<>>
               /\ store' = store
          ELSE LET s2 == Insert(store, req.data)
                   db_appointment == s2[Len(s2)]
               IN /\ store' = s2
                  /\ resp' = Response("create", 200, db_appointment.id, <<>>)
                  /\ sent' = IfPatient(db_appointment,
                                       AppointmentMail(db_appointment))
  /\ req' = NoRequest
  /\ UNCHANGED <<patients, inflight>>

\* ------------------------------------------------------ update_appointment

\* Forbidden without the test of the caller's type.
ForbiddenAnyCaller(current_user, appointment) ==
  appointment.psychologist_id # current_user.id

\* current_user.type == PSICOLOGO and
\* appointment.psychologist_id != current_user.id
Forbidden(current_user, appointment) ==
  /\ current_user.type = PSICOLOGO
  /\ appointment.psychologist_id # current_user.id

\* ApplyUpdate without exclude_unset: the fields that were not set arrive
\* as None and are written too.
ApplyUpdateUnset(appointment, update_data) ==
  [f \in DOMAIN appointment |->
     IF f \in DOMAIN update_data THEN update_data[f]
     ELSE IF f \in UpdateFields THEN "None"
     ELSE appointment[f]]

\* for field, value in update_data.dict(exclude_unset=True).items():
\*     setattr(appointment, field, value)
ApplyUpdate(appointment, update_data) ==
  [f \in DOMAIN appointment |->
     IF f \in DOMAIN update_data THEN update_data[f] ELSE appointment[f]]

\* Rescheduled without the comparison of the time.
RescheduledDateOnly(old_date, old_time, appointment) ==
  appointment.date # old_date

\* (appointment.date != old_date) or (appointment.time != old_time)
Rescheduled(old_date, old_time, appointment) ==
  (appointment.date # old_date) \/ (appointment.time # old_time)

\* The mail send_email_appointment_rescheduled is called with.
RescheduledMail(row) ==
  [kind |-> "rescheduled", patient |-> row.patient_id,
   date |-> row.date, time |-> row.time]

UpdateAppointment ==
  /\ req.op = "update"
  /\ LET idx == FindById(store, req.appointment_id)
     IN IF idx = 0
          THEN /\ resp' = Response("update", 404, req.appointment_id, <<>>)
               /\ sent' = <<>>
               /\ store' = store
          ELSE IF Forbidden(req.current_user, store[idx])
            THEN /\ resp' = Response("update", 403, req.appointment_id, <<>>)
                 /\ sent' = <<>>
                 /\ store' = store
            ELSE LET old_date == store[idx].date
                     old_time == store[idx].time
                     s2 == [store EXCEPT
                              ![idx] = ApplyUpdate(@, req.update_data)]
                     appointment == s2[idx]
                 IN /\ store' = s2
                    /\ resp' = Response("update", 200, req.appointment_id, <<>>)
                    /\ sent' = IF Rescheduled(old_date, old_time, appointment)
                                 THEN IfPatient(appointment,
                                                RescheduledMail(appointment))
                                 ELSE <<>>
  /\ req' = NoRequest
  /\ UNCHANGED <<patients, inflight>>

\* ------------------------------------------------------ cancel_appointment

\* The mail send_email_appointment_canceled is called with.
CanceledMail(row) ==
  [kind |-> "canceled", patient |-> row.patient_id,
   psychologist |-> row.psychologist_id]

\* if patient and psychologist: send(...)
IfPatientAndPsychologist(row, mail) ==
  IF PatientFound(row.patient_id) /\ UserFound(row.psychologist_id)
    THEN <<mail>>
    ELSE <<>>

\* SetCanceled without the commit: the table keeps the row as it was.
SetCanceledNotCommitted(s, idx) == s

\* appointment.status = CANCELADO; db.commit()
SetCanceled(s, idx) == [s EXCEPT ![idx].status = CANCELADO]

\* cancel_appointment with the authorization check of update_appointment.
CancelAppointmentAuthorized ==
  /\ req.op = "cancel"
  /\ LET idx == FindById(store, req.appointment_id)
     IN IF idx = 0
          THEN /\ resp' = Response("cancel", 404, req.appointment_id, <<>>)
               /\ sent' = <<>>
               /\ store' = store
          ELSE IF Forbidden(req.current_user, store[idx])
            THEN /\ resp' = Response("cancel", 403, req.appointment_id, <<>>)
                 /\ sent' = <<>>
                 /\ store' = store
            ELSE LET s2 == SetCanceled(store, idx)
                     appointment == s2[idx]
                 IN /\ store' = s2
                    /\ resp' = Response("cancel", 200, req.appointment_id, <<>>)
                    /\ sent' = IfPatientAndPsychologist(
                                 appointment, CanceledMail(appointment))
  /\ req' = NoRequest
  /\ UNCHANGED <<patients, inflight>>

CancelAppointment ==
  /\ req.op = "cancel"
  /\ LET idx == FindById(store, req.appointment_id)
     IN IF idx = 0
          THEN /\ resp' = Response("cancel", 404, req.appointment_id, <<>>)
               /\ sent' = <<>>
               /\ store' = store
          ELSE LET s2 == SetCanceled(store, idx)
                   appointment == s2[idx]
               IN /\ store' = s2
                  /\ resp' = Response("cancel", 200, req.appointment_id, <<>>)
                  /\ sent' = IfPatientAndPsychologist(
                               appointment, CanceledMail(appointment))
  /\ req' = NoRequest
  /\ UNCHANGED <<patients, inflight>>

\* ----------------------------------------------------- get_available_slots

all_slots == <<"09:00", "10:00", "11:00", "14:00", "15:00", "16:00", "17:00">>

\* OccupiedRow without the filter on Appointment.status.
OccupiedRowAnyStatus(a, date, psychologist_id) ==
  /\ a.date = date
  /\ a.psychologist_id = psychologist_id

\* The filter of the occupied query.
OccupiedRow(a, date, psychologist_id) ==
  /\ a.date = date
  /\ a.psychologist_id = psychologist_id
  /\ a.status = AGENDADO

\* occupied_times = [t[0] for t in occupied], in store order.
OccupiedTimes(s, date, psychologist_id) ==
  LET occupied == SelectSeq(s, LAMBDA a : OccupiedRow(a, date, psychologist_id))
  IN [i \in DOMAIN occupied |-> occupied[i].time]

\* available = [slot for slot in all_slots if slot not in occupied_times]
AvailableSlots(s, date, psychologist_id) ==
  LET occupied_times == OccupiedTimes(s, date, psychologist_id)
  IN SelectSeq(all_slots,
               LAMBDA slot : \A i \in DOMAIN occupied_times :
                               occupied_times[i] # slot)

GetAvailableSlots ==
  /\ req.op = "slots"
  /\ resp' = Response("slots", 200, 0,
                      AvailableSlots(store, req.date, req.psychologist_id))
  /\ sent' = <<>>
  /\ req' = NoRequest
  /\ UNCHANGED <<store, patients, inflight>>

\* --------------------------------------------- requests in, responses out

CreateRequests == { [op |-> "create", data |-> d] : d \in CreateInputs }

UpdateRequests(s) ==
  { [op |-> "update", current_user |-> c, appointment_id |-> i,
     update_data |-> p] :
    c \in Callers, i \in RequestIds(s), p \in UpdateInputs }

CancelRequests(s) ==
  { [op |-> "cancel", current_user |-> c, appointment_id |-> i] :
    c \in Callers, i \in RequestIds(s) }

SlotsRequests ==
  { [op |-> "slots", date |-> d, psychologist_id |-> p] :
    d \in Dates, p \in PsychologistIds }

\* A request arrives once the previous response has left.  Create requests
\* stop arriving when the table holds MaxAppts rows.
Receive ==
  /\ req.op = "none"
  /\ resp.op = "none"
  /\ \/ Len(store) < MaxAppts /\ req' \in CreateRequests
     \/ req' \in UpdateRequests(store)
     \/ req' \in CancelRequests(store)
     \/ req' \in SlotsRequests
  /\ UNCHANGED <<store, patients, resp, sent, inflight>>

\* The response leaves the server.
Deliver ==
  /\ resp.op # "none"
  /\ resp' = NoResponse
  /\ sent' = <<>>
  /\ UNCHANGED <<store, patients, req, inflight>>

\* ------------------------------------------------------- the specification

Init ==
  /\ store = <<>>
  /\ patients \in SUBSET PatientIds
  /\ req = NoRequest
  /\ resp = NoResponse
  /\ sent = <<>>
  /\ inflight = [w \in Workers |-> Idle]

Next ==
  \/ Receive
  \/ CreateAppointment
  \/ UpdateAppointment
  \/ CancelAppointment
  \/ GetAvailableSlots
  \/ Deliver

Spec == Init /\ [][Next]_vars

\* ------------------------------------- two create_appointment side by side

\* The handler up to its conflict check: existing = db.query(...).first();
\* if existing: raise HTTPException(400).  A worker takes a request when it
\* holds none or has answered its last one, while the table has room for
\* every request that has passed the check.
CheckSlot(w) ==
  /\ inflight[w].pc \in {"idle", "done"}
  /\ Len(store) + Cardinality({ o \in Workers : inflight[o].pc = "checked" })
       < MaxAppts
  /\ \E data \in CreateInputs :
       inflight' =
         [inflight EXCEPT ![w] =
            IF FindExisting(store, data) # 0
              THEN [pc |-> "done", data |-> data, code |-> 400, id |-> 0,
                    sent |-> <<>>]
              ELSE [pc |-> "checked", data |-> data]]
  /\ UNCHANGED <<store, patients, req, resp, sent>>

\* CommitCreate with the conflict query run again in the transaction of the
\* insert: a request that lost the race answers 400.
CommitCreateRechecked(w) ==
  /\ inflight[w].pc = "checked"
  /\ IF FindExisting(store, inflight[w].data) # 0
       THEN /\ store' = store
            /\ inflight' =
                 [inflight EXCEPT ![w] =
                    [pc |-> "done", data |-> inflight[w].data, code |-> 400,
                     id |-> 0, sent |-> <<>>]]
       ELSE LET s2 == Insert(store, inflight[w].data)
                db_appointment == s2[Len(s2)]
            IN /\ store' = s2
               /\ inflight' =
                    [inflight EXCEPT ![w] =
                       [pc |-> "done", data |-> inflight[w].data, code |-> 200,
                        id |-> db_appointment.id,
                        sent |-> IfPatient(db_appointment,
                                           AppointmentMail(db_appointment))]]
  /\ UNCHANGED <<patients, req, resp, sent>>

\* The handler from db.add on: the insert, the mail, the response.
CommitCreate(w) ==
  /\ inflight[w].pc = "checked"
  /\ LET s2 == Insert(store, inflight[w].data)
         db_appointment == s2[Len(s2)]
     IN /\ store' = s2
        /\ inflight' =
             [inflight EXCEPT ![w] =
                [pc |-> "done", data |-> inflight[w].data, code |-> 200,
                 id |-> db_appointment.id,
                 sent |-> IfPatient(db_appointment,
                                    AppointmentMail(db_appointment))]]
  /\ UNCHANGED <<patients, req, resp, sent>>

NextConc == \E w \in Workers : CheckSlot(w) \/ CommitCreate(w)

SpecConc == Init /\ [][NextConc]_vars

\* ------------------------------------------------ vocabulary of the claims

RowFields == {"id", "patient_id", "psychologist_id", "date", "time", "status"}

FixedSlots == <<"09:00", "10:00", "11:00", "14:00", "15:00", "16:00", "17:00">>

Range(f) == { f[k] : k \in DOMAIN f }

\* A handler step: the request that was being handled has been answered.
Handled(op) == req.op = op /\ req'.op = "none"

\* The rows with status SCHEDULED of a psychologist, date and time.
ScheduledAt(s, psychologist_id, date, time) ==
  { i \in DOMAIN s :
      /\ s[i].psychologist_id = psychologist_id
      /\ s[i].date = date
      /\ s[i].time = time
      /\ s[i].status = AGENDADO }

\* The times of the SCHEDULED rows of a date and psychologist.
TakenTimes(s, date, psychologist_id) ==
  { s[i].time : i \in { j \in DOMAIN s :
                          /\ s[j].date = date
                          /\ s[j].psychologist_id = psychologist_id
                          /\ s[j].status = AGENDADO } }

SlotPosition(label) == CHOOSE k \in DOMAIN FixedSlots : FixedSlots[k] = label

\* r is the fixed sequence with exactly the taken labels removed: it holds
\* only free labels, in the fixed order without repetition, and all of them.
IsSlotsAnswer(r, s, date, psychologist_id) ==
  LET taken == TakenTimes(s, date, psychologist_id)
  IN /\ DOMAIN r = 1 .. Len(r)
     /\ \A k \in DOMAIN r : r[k] \in Range(FixedSlots) \ taken
     /\ \A k \in DOMAIN r : k > 1 => SlotPosition(r[k - 1]) < SlotPosition(r[k])
     /\ Len(r) = Cardinality(Range(FixedSlots) \ taken)

\* Every row but row i is the same in s and t, and no row came or went.
OnlyRowChanged(s, t, i) ==
  /\ DOMAIN t = DOMAIN s
  /\ \A j \in DOMAIN s : j # i => t[j] = s[j]

SameSlot(d, e) ==
  /\ d.psychologist_id = e.psychologist_id
  /\ d.date = e.date
  /\ d.time = e.time

\* ---------------------------------------------------------------- claims

\* C1: in every state reached by create, update and cancel requests run one
\* after another, at most one SCHEDULED appointment exists for any
\* (psychologist_id, date, time).
C1_AtMostOneScheduledPerSlot ==
  \A psychologist_id \in PsychologistIds, date \in Dates, time \in Times :
    Cardinality(ScheduledAt(store, psychologist_id, date, time)) <= 1

\* C2: when two create requests for the same psychologist, date and time
\* have both passed the conflict check before either has committed, each
\* commit succeeds, and after the second the table holds two SCHEDULED rows
\* for that slot.
C2_RaceDoubleBooks ==
  [][ \A w \in Workers : \A o \in Workers \ {w} :
        ( /\ inflight[w].pc = "checked"
          /\ inflight'[w].pc # "checked"
          /\ \/ inflight[o].pc = "checked"
             \/ inflight[o].pc = "done" /\ inflight[o].code = 200
          /\ SameSlot(inflight[w].data, inflight[o].data) )
        => /\ inflight'[w].pc = "done"
           /\ inflight'[w].code = 200
           /\ inflight'[w].id \in DOMAIN store' \ DOMAIN store
           /\ store'[inflight'[w].id].status = AGENDADO
           /\ SameSlot(store'[inflight'[w].id], inflight[w].data)
           /\ inflight[o].pc = "done" =>
                /\ inflight'[w].id # inflight[o].id
                /\ Cardinality(ScheduledAt(store',
                                           inflight[w].data.psychologist_id,
                                           inflight[w].data.date,
                                           inflight[w].data.time)) >= 2 ]_vars

\* C2 witness: both workers answered 200 for the same slot and the table
\* holds their two SCHEDULED rows.
C2_DoubleBooked ==
  /\ \A w \in Workers : inflight[w].pc = "done" /\ inflight[w].code = 200
  /\ SameSlot(inflight[1].data, inflight[2].data)
  /\ inflight[1].id # inflight[2].id
  /\ \A w \in Workers :
       /\ store[inflight[w].id].status = AGENDADO
       /\ SameSlot(store[inflight[w].id], inflight[w].data)

\* C3: an appointment is SCHEDULED right after its creation, and a status
\* only ever changes from SCHEDULED to CANCELED.
C3_StatusOnlyCancels ==
  [][ /\ \A i \in DOMAIN store' \ DOMAIN store : store'[i].status = AGENDADO
      /\ \A i \in DOMAIN store :
           store'[i].status # store[i].status =>
             store[i].status = AGENDADO /\ store'[i].status = CANCELADO ]_vars

\* C4: a create request fails with 400 exactly when a SCHEDULED appointment
\* of its psychologist, date and time is stored; failing, it changes no row
\* and sends nothing; otherwise it succeeds and adds one SCHEDULED row with
\* the requested fields.
C4_CreateConflictRule ==
  [][ Handled("create") =>
        LET data == req.data
            taken == ScheduledAt(store, data.psychologist_id,
                                 data.date, data.time) # {}
        IN /\ resp'.op = "create"
           /\ resp'.code = 400 <=> taken
           /\ taken => store' = store /\ sent' = <<>>
           /\ ~taken =>
                /\ resp'.code = 200
                /\ Len(store') = Len(store) + 1
                /\ SubSeq(store', 1, Len(store)) = store
                /\ store'[Len(store')] =
                     [id |-> resp'.id,
                      patient_id |-> data.patient_id,
                      psychologist_id |-> data.psychologist_id,
                      date |-> data.date,
                      time |-> data.time,
                      status |-> AGENDADO]
                /\ resp'.id \notin DOMAIN store ]_vars

\* C4 witness: a create succeeded on a slot that holds a CANCELED row.
C4_CreatedOverCanceled ==
  /\ resp.op = "create"
  /\ resp.code = 200
  /\ \E i \in DOMAIN store :
       /\ i # resp.id
       /\ store[i].status = CANCELADO
       /\ SameSlot(store[i], store[resp.id])

\* C5 as stated, for a cancel that starts from a table with no double
\* booking: after a successful cancel of A, the available-slots query of A's
\* date and psychologist includes A's time, and a create request for A's
\* psychologist, date and time passes the conflict check.
C5_SlotFreeAfterCancel ==
  [][ ( /\ Handled("cancel")
        /\ resp'.code = 200
        /\ \A psychologist_id \in PsychologistIds, date \in Dates,
              time \in Times :
             Cardinality(ScheduledAt(store, psychologist_id, date, time)) <= 1 )
      => LET a == store'[resp'.id]
         IN /\ a.time \in Range(FixedSlots) =>
                 a.time \in
                   Range(AvailableSlots(store', a.date, a.psychologist_id))
            /\ FindExisting(store', a) = 0 ]_vars

\* C5 amended: after a successful cancel of A, A is CANCELED and, unless
\* another appointment is SCHEDULED for A's psychologist, date and time, the
\* available-slots query of A's date and psychologist includes A's time and
\* a create request for A's slot passes the conflict check.
C5_SlotFreeUnlessHeldByAnother ==
  (resp.op = "cancel" /\ resp.code = 200) =>
    LET a == store[resp.id]
        others == ScheduledAt(store, a.psychologist_id, a.date, a.time)
    IN /\ a.status = CANCELADO
       /\ resp.id \notin others
       /\ others = {} =>
            /\ a.time \in Range(FixedSlots) =>
                 a.time \in
                   Range(AvailableSlots(store, a.date, a.psychologist_id))
            /\ FindExisting(store, a) = 0

\* C5 witness: a cancel succeeded and the slot of its appointment, one of
\* the fixed labels, is offered again.
C5_CanceledSlotOffered ==
  /\ resp.op = "cancel"
  /\ resp.code = 200
  /\ store[resp.id].time \in Range(FixedSlots)
  /\ store[resp.id].time \in
       Range(AvailableSlots(store, store[resp.id].date,
                            store[resp.id].psychologist_id))
  /\ FindExisting(store, store[resp.id]) = 0

\* C6: for every store, date and psychologist the available-slots query
\* returns the fixed sequence without the times of the SCHEDULED rows of
\* that date and psychologist, in the fixed order, and changes no row.
C6_SlotsQueryRule ==
  [][ Handled("slots") =>
        /\ store' = store
        /\ resp'.op = "slots"
        /\ resp'.code = 200
        /\ IsSlotsAnswer(resp'.body, store, req.date, req.psychologist_id) ]_vars

\* C6 witness: with 10:00 and 15:00 scheduled the query answered the other
\* five labels.
C6_TwoSlotsTaken ==
  /\ resp.op = "slots"
  /\ resp.body = <<"09:00", "11:00", "14:00", "16:00", "17:00">>
  /\ \A i \in DOMAIN store : store[i].status = AGENDADO

\* C7 as stated: every successful create, date- or time-changing update and
\* cancel sends exactly one notification.
C7_ExactlyOneNotification ==
  [][ /\ (Handled("create") /\ resp'.code = 200) => Len(sent') = 1
      /\ (Handled("cancel") /\ resp'.code = 200) => Len(sent') = 1
      /\ ( /\ Handled("update")
           /\ resp'.code = 200
           /\ \/ store'[resp'.id].date # store[resp'.id].date
              \/ store'[resp'.id].time # store[resp'.id].time )
         => Len(sent') = 1 ]_vars

\* C7 amended: every successful create, date- or time-changing update and
\* cancel sends exactly one notification when the appointment's patient has
\* a Patient row (for cancel: and its psychologist a User row) and none
\* otherwise; the notification carries the row as stored after the change.
C7_NotificationRule ==
  [][ /\ (Handled("create") /\ resp'.code = 200) =>
           LET a == store'[resp'.id]
           IN sent' = IF a.patient_id \in patients
                        THEN << [kind |-> "appointment",
                                 patient |-> a.patient_id,
                                 date |-> a.date, time |-> a.time] >>
                        ELSE <<>>
      /\ (Handled("cancel") /\ resp'.code = 200) =>
           LET a == store'[resp'.id]
           IN sent' = IF /\ a.patient_id \in patients
                         /\ a.psychologist_id \in UserTable
                        THEN << [kind |-> "canceled",
                                 patient |-> a.patient_id,
                                 psychologist |-> a.psychologist_id] >>
                        ELSE <<>>
      /\ ( /\ Handled("update")
           /\ resp'.code = 200
           /\ \/ store'[resp'.id].date # store[resp'.id].date
              \/ store'[resp'.id].time # store[resp'.id].time )
         => LET a == store'[resp'.id]
            IN sent' = IF a.patient_id \in patients
                         THEN << [kind |-> "rescheduled",
                                  patient |-> a.patient_id,
                                  date |-> a.date, time |-> a.time] >>
                         ELSE <<>> ]_vars

\* C7 witness: a successful create sent nothing, its patient having no row.
C7_CreatedWithoutNotification ==
  /\ resp.op = "create"
  /\ resp.code = 200
  /\ sent = <<>>
  /\ store[resp.id].patient_id \notin patients

\* C8: a cancel request for an id that matches no row fails with 404,
\* changes nothing and sends nothing; for a stored id it succeeds for every
\* caller, leaves the row CANCELED with its other fields as they were,
\* changes no other row and removes none.
C8_CancelRule ==
  [][ Handled("cancel") =>
        /\ resp'.op = "cancel"
        /\ IF req.appointment_id \notin DOMAIN store
             THEN resp'.code = 404 /\ store' = store /\ sent' = <<>>
             ELSE /\ resp'.code = 200
                  /\ OnlyRowChanged(store, store', req.appointment_id)
                  /\ store'[req.appointment_id].status = CANCELADO
                  /\ \A f \in RowFields \ {"status"} :
                       store'[req.appointment_id][f] =
                         store[req.appointment_id][f] ]_vars

\* C8 witness: a cancel succeeded on an appointment of psychologist 2, who
\* is none of the callers.
C8_CanceledByAnother ==
  /\ resp.op = "cancel"
  /\ resp.code = 200
  /\ store[resp.id].status = CANCELADO
  /\ \A current_user \in Callers :
       current_user.id # store[resp.id].psychologist_id

\* C9: an update request fails with 404 when its id matches no row, and
\* with 403 when the row exists and the caller is a practitioner other than
\* the row's; failing, it changes no row and sends nothing; in every other
\* case the update is applied.
C9_UpdateGuardRule ==
  [][ Handled("update") =>
        /\ resp'.op = "update"
        /\ IF req.appointment_id \notin DOMAIN store
             THEN resp'.code = 404 /\ store' = store /\ sent' = <<>>
             ELSE IF /\ req.current_user.type = PSICOLOGO
                     /\ req.current_user.id #
                          store[req.appointment_id].psychologist_id
               THEN resp'.code = 403 /\ store' = store /\ sent' = <<>>
               ELSE /\ resp'.code = 200
                    /\ \A f \in DOMAIN req.update_data :
                         store'[req.appointment_id][f] = req.update_data[f] ]_vars

\* C9 witness: an update of a stored appointment was refused with 403.
C9_UpdateRefused ==
  /\ resp.op = "update"
  /\ resp.code = 403
  /\ resp.id \in DOMAIN store

\* C10: a successful update sets exactly the fields of its payload on its
\* row, leaves the other fields and the other rows as they were, and sends
\* a rescheduled notification only if the row's date or time changed.
C10_UpdateFrameRule ==
  [][ (Handled("update") /\ resp'.code = 200) =>
        LET i == req.appointment_id
        IN /\ OnlyRowChanged(store, store', i)
           /\ DOMAIN store'[i] = RowFields
           /\ \A f \in RowFields :
                store'[i][f] = IF f \in DOMAIN req.update_data
                                 THEN req.update_data[f]
                                 ELSE store[i][f]
           /\ sent' # <<>> =>
                /\ Len(sent') = 1
                /\ sent'[1].kind = "rescheduled"
                /\ store'[i].date # store[i].date \/ store'[i].time # store[i].time ]_vars

\* C10 witness: an update succeeded and sent nothing although the patient
\* of its appointment has a row.
C10_UpdateWithoutNotification ==
  /\ resp.op = "update"
  /\ resp.code = 200
  /\ sent = <<>>
  /\ store[resp.id].patient_id \in patients

====
